---- MODULE Spec2Model ----
(***************************************************************************)
(* A model of the tool handlers of src/main.py (the "Claude Efficiency     *)
(* Tools" MCP server): the filesystem tools, the environment tools, the    *)
(* command runner and the pure text/time/data tools.                       *)
(*                                                                         *)
(* Strings are sequences of one-character strings, so that globbing,       *)
(* substring search and JSON parsing are computed and not assumed.         *)
(* Library calls (pathlib, subprocess, json, datetime) are modelled by     *)
(* what CPython 3.11 does on POSIX.                                        *)
(***************************************************************************)
EXTENDS Integers, Sequences, FiniteSets, TLC

VARIABLES
    fs,      \* the external filesystem: path -> node
    fs0,     \* the filesystem as the server found it (before any invocation)
    cwdOk,   \* whether the process's working directory still exists
    call,    \* the last invocation: [tool |-> ..., args...]
    res,     \* its outcome: a returned envelope or an exception raised past the handler
    procs,   \* concurrent create_file invocations: process -> position and locals
    sub,     \* the subprocess of a run_command invocation
    res2     \* the outcome of the companion invocation of a pure tool

vars == <<fs, fs0, cwdOk, call, res, procs, sub, res2>>

(***************************************************************************)
(* Outcomes and envelopes                                                  *)
(***************************************************************************)
NoCall == [tool |-> "none"]
NoRes == [kind |-> "none"]

\* The handler returned the mapping env.
Return(env) == [kind |-> "return", env |-> env]

\* An exception left the handler (no try/except around the failing call).
Raise(exc) == [kind |-> "raise", exc |-> exc]

\* return {"error": str(e)} / return {"error": f"..."}
Err(msg) == Return([error |-> msg])

IsEnvelope(r) == r.kind = "return"
IsErrorEnvelope(r) == r.kind = "return" /\ DOMAIN r.env = {"error"}
IsPayload(r) == r.kind = "return" /\ DOMAIN r.env # {} /\ "error" \notin DOMAIN r.env

(***************************************************************************)
(* The filesystem                                                          *)
(***************************************************************************)
\* The most entries the modelled tree holds (a quota on the model's disk).
MaxNodes == 4

Names == {<<"a">>, <<"b", ".", "t">>}
Root == <<>>
Paths == {<<n>> : n \in Names} \cup {<<n, m>> : n \in Names, m \in Names}
Dirs == {Root} \cup Paths

Absent == [kind |-> "absent", ok |-> TRUE, content |-> <<>>]
Dir(ok) == [kind |-> "dir", ok |-> ok, content |-> <<>>]
File(ok, c) == [kind |-> "file", ok |-> ok, content |-> c]
\* A unix socket: it exists, is neither a regular file nor a directory, and
\* open() on it fails with ENXIO.
Socket == [kind |-> "socket", ok |-> TRUE, content |-> <<>>]

Parent(p) == SubSeq(p, 1, Len(p) - 1)
Last(p) == p[Len(p)]
Children(d) == {p \in Paths : Len(p) = Len(d) + 1 /\ Parent(p) = d}
IsPrefix(d, p) == Len(d) <= Len(p) /\ SubSeq(p, 1, Len(d)) = d
NodeAt(f, p) == IF p = Root THEN Dir(TRUE) ELSE f[p]
NodeCount(f) == Cardinality({p \in Paths : f[p].kind # "absent"})

\* A child exists only inside a directory.
WellFormed(f) ==
    \A p \in Paths : f[p].kind # "absent" => NodeAt(f, Parent(p)).kind = "dir"

\* os.stat(p), following the path from the root: the first component that is
\* missing, not a directory or not searchable decides the errno.
RECURSIVE Walk(_, _, _)
Walk(f, p, i) ==
    LET q == SubSeq(p, 1, i)
        n == NodeAt(f, q)
    IN  IF n.kind = "absent" THEN [err |-> "ENOENT", node |-> Absent]
        ELSE IF i = Len(p) THEN [err |-> "", node |-> n]
        ELSE IF n.kind # "dir" THEN [err |-> "ENOTDIR", node |-> Absent]
        ELSE IF ~n.ok THEN [err |-> "EACCES", node |-> Absent]
        ELSE Walk(f, p, i + 1)

Stat(f, p) == Walk(f, p, 0)

\* Path.exists(), Path.is_file(), Path.is_dir(): ENOENT and ENOTDIR mean no,
\* any other errno is raised.  Each gives [raised, val].
PathTest(f, p, kinds) ==
    LET s == Stat(f, p)
    IN  IF s.err = "EACCES" THEN [raised |-> TRUE, val |-> FALSE]
        ELSE [raised |-> FALSE, val |-> s.err = "" /\ s.node.kind \in kinds]

exists(f, p) == PathTest(f, p, {"file", "dir", "socket"})
is_file(f, p) == PathTest(f, p, {"file"})
is_dir(f, p) == PathTest(f, p, {"dir"})

(***************************************************************************)
(* create_file                                                             *)
(***************************************************************************)
\* path.parent.mkdir(parents=True, exist_ok=True): [fs, err].
RECURSIVE mkdir_p(_, _)
mkdir_p(f, d) ==
    LET s == Stat(f, d)
    IN  IF s.err = "" THEN
            \* os.mkdir gives EEXIST; tolerated only when d is a directory
            IF s.node.kind = "dir" THEN [fs |-> f, err |-> ""]
            ELSE [fs |-> f, err |-> "FileExistsError"]
        ELSE IF s.err = "ENOTDIR" THEN [fs |-> f, err |-> "NotADirectoryError"]
        ELSE IF s.err = "EACCES" THEN [fs |-> f, err |-> "PermissionError"]
        ELSE \* ENOENT: make the parents, then d
            LET up == mkdir_p(f, Parent(d))
            IN  IF up.err # "" THEN up
                ELSE IF ~NodeAt(up.fs, Parent(d)).ok
                     THEN [fs |-> up.fs, err |-> "PermissionError"]
                ELSE [fs |-> [up.fs EXCEPT ![d] = Dir(TRUE)], err |-> ""]

\* open(path, 'w') followed by f.write(content): [fs, err].
open_write(f, p, content) ==
    LET s == Stat(f, p)
    IN  IF s.err = "ENOENT" THEN
            IF NodeAt(f, Parent(p)).kind = "dir" /\ NodeAt(f, Parent(p)).ok
            THEN [fs |-> [f EXCEPT ![p] = File(TRUE, content)], err |-> ""]
            ELSE IF NodeAt(f, Parent(p)).kind = "dir"
                 THEN [fs |-> f, err |-> "PermissionError"]
            ELSE [fs |-> f, err |-> "FileNotFoundError"]
        ELSE IF s.err = "ENOTDIR" THEN [fs |-> f, err |-> "NotADirectoryError"]
        ELSE IF s.err = "EACCES" THEN [fs |-> f, err |-> "PermissionError"]
        ELSE IF s.node.kind = "dir" THEN [fs |-> f, err |-> "IsADirectoryError"]
        ELSE IF s.node.kind = "socket" THEN [fs |-> f, err |-> "OSError(ENXIO)"]
        ELSE IF ~s.node.ok THEN [fs |-> f, err |-> "PermissionError"]
        ELSE [fs |-> [f EXCEPT ![p] = File(TRUE, content)], err |-> ""]

\* The success envelope of create_file, read back from the file just written.
created_envelope(f, p) ==
    Return([success |-> TRUE,
            file_path |-> p,
            size |-> Len(NodeAt(f, p).content),
            created |-> "st_ctime"])

AlreadyExists(p) == <<"File ", p, " already exists. Set overwrite=True to overwrite.">>

\* create_file with the overwrite flag ignored: the existence check is lost.
create_file_ignoring_flag(f, p, content, overwrite) ==
    LET m == mkdir_p(f, Parent(p))
        w == open_write(m.fs, p, content)
    IN  IF exists(f, p).raised THEN [fs |-> f, out |-> Err(<<"PermissionError">>)]
        ELSE IF m.err # "" THEN [fs |-> m.fs, out |-> Err(<<m.err>>)]
        ELSE IF w.err # "" THEN [fs |-> w.fs, out |-> Err(<<w.err>>)]
        ELSE [fs |-> w.fs, out |-> created_envelope(w.fs, p)]

\* create_file with the file opened for writing before the existence check:
\* the conflict is still reported, after the content is gone.
create_file_write_first(f, p, content, overwrite) ==
    LET e == exists(f, p)
        m == mkdir_p(f, Parent(p))
        w == open_write(m.fs, p, content)
    IN  IF e.raised THEN [fs |-> f, out |-> Err(<<"PermissionError">>)]
        ELSE IF m.err # "" THEN [fs |-> m.fs, out |-> Err(<<m.err>>)]
        ELSE IF w.err # "" THEN [fs |-> w.fs, out |-> Err(<<w.err>>)]
        ELSE IF e.val /\ ~overwrite THEN [fs |-> w.fs, out |-> Err(AlreadyExists(p))]
        ELSE [fs |-> w.fs, out |-> created_envelope(w.fs, p)]

\* create_file(file_path, content, overwrite): [fs, out].
create_file(f, p, content, overwrite) ==
    LET e == exists(f, p)
    IN  IF e.raised THEN [fs |-> f, out |-> Err(<<"PermissionError">>)]
        ELSE IF e.val /\ ~overwrite THEN [fs |-> f, out |-> Err(AlreadyExists(p))]
        ELSE
            LET m == mkdir_p(f, Parent(p))
            IN  IF m.err # "" THEN [fs |-> m.fs, out |-> Err(<<m.err>>)]
                ELSE
                    LET w == open_write(m.fs, p, content)
                    IN  IF w.err # "" THEN [fs |-> w.fs, out |-> Err(<<w.err>>)]
                        ELSE [fs |-> w.fs, out |-> created_envelope(w.fs, p)]

(***************************************************************************)
(* Globbing: list_files and search_files                                   *)
(***************************************************************************)
\* fnmatch of one name against one pattern component ("*" is the only
\* wildcard of the modelled alphabet; matching is case-sensitive on POSIX).
RECURSIVE Match(_, _)
Match(pat, s) ==
    IF pat = <<>> THEN s = <<>>
    ELSE IF Head(pat) = "*"
         THEN Match(Tail(pat), s) \/ (s # <<>> /\ Match(pat, Tail(s)))
    ELSE s # <<>> /\ Head(s) = Head(pat) /\ Match(Tail(pat), Tail(s))

\* "**" inside a longer component: pathlib raises ValueError("Invalid
\* pattern: '**' can only be an entire path component").
HasDoubleStar(pat) == \E i \in 1..(Len(pat) - 1) : pat[i] = "*" /\ pat[i + 1] = "*"

\* The entries os.scandir(d) yields whose name matches pat; nothing when d is
\* not a directory or may not be read (pathlib swallows PermissionError).
Select(f, d, pat) ==
    IF NodeAt(f, d).kind = "dir" /\ NodeAt(f, d).ok
    THEN {p \in Children(d) : f[p].kind # "absent" /\ Match(pat, Last(p))}
    ELSE {}

\* The directories a "**" component walks: d and, below every readable
\* directory, its subdirectories.
RecursiveDirs(f, d) ==
    {q \in Dirs :
        /\ IsPrefix(d, q)
        /\ \A i \in Len(d)..Len(q) :
              LET r == SubSeq(q, 1, i)
              IN  NodeAt(f, r).kind = "dir" /\ (i < Len(q) => NodeAt(f, r).ok)}

\* list(path.glob(pattern)) for a one-component pattern: [err, matches].
glob(f, d, pat) ==
    IF pat = <<>> THEN [err |-> "ValueError: Unacceptable pattern", matches |-> {}]
    ELSE IF pat # <<"*", "*">> /\ HasDoubleStar(pat)
         THEN [err |-> "ValueError: Invalid pattern", matches |-> {}]
    ELSE IF is_dir(f, d).raised THEN [err |-> "PermissionError", matches |-> {}]
    ELSE IF ~is_dir(f, d).val THEN [err |-> "", matches |-> {}]
    ELSE IF pat = <<"*", "*">> THEN [err |-> "", matches |-> RecursiveDirs(f, d)]
    ELSE [err |-> "", matches |-> Select(f, d, pat)]

\* list(path.rglob(pattern)): glob("**/" + pattern).
rglob(f, d, pat) ==
    IF pat # <<"*", "*">> /\ HasDoubleStar(pat)
    THEN [err |-> "ValueError: Invalid pattern", matches |-> {}]
    ELSE IF is_dir(f, d).raised THEN [err |-> "PermissionError", matches |-> {}]
    ELSE IF ~is_dir(f, d).val THEN [err |-> "", matches |-> {}]
    ELSE IF pat = <<"*", "*">> \/ pat = <<>>
         THEN [err |-> "", matches |-> RecursiveDirs(f, d)]
    ELSE [err |-> "",
          matches |-> UNION {Select(f, q, pat) : q \in RecursiveDirs(f, d)}]

\* str(f.relative_to(path))
relative_to(m, d) == SubSeq(m, Len(d) + 1, Len(m))

\* list_files with total_dirs counted as "every match that is not a file".
list_files_dirs_by_difference(f, d, pat) ==
    LET g == glob(f, d, pat)
        fileMatches == {m \in g.matches : is_file(f, m).val}
        dirMatches == {m \in g.matches : is_dir(f, m).val}
    IN  IF g.err # "" THEN Err(<<g.err>>)
        ELSE Return([directory |-> d,
                     pattern |-> pat,
                     files |-> {relative_to(m, d) : m \in fileMatches},
                     directories |-> {relative_to(m, d) : m \in dirMatches},
                     total_files |-> Cardinality(fileMatches),
                     total_dirs |-> Cardinality(g.matches) - Cardinality(fileMatches)])

\* list_files(directory, pattern).  The two lists are modelled as sets: the
\* order is the order of os.scandir, which is unspecified, and a
\* one-component glob yields every entry once.
list_files(f, d, pat) ==
    LET g == glob(f, d, pat)
        fileMatches == {m \in g.matches : is_file(f, m).val}
        dirMatches == {m \in g.matches : is_dir(f, m).val}
    IN  IF g.err # "" THEN Err(<<g.err>>)
        ELSE Return([directory |-> d,
                     pattern |-> pat,
                     files |-> {relative_to(m, d) : m \in fileMatches},
                     directories |-> {relative_to(m, d) : m \in dirMatches},
                     total_files |-> Cardinality(fileMatches),
                     total_dirs |-> Cardinality(dirMatches)])

\* str.lower() on the modelled alphabet.
LowerChar(c) ==
    CASE c = "H" -> "h"
      [] c = "I" -> "i"
      [] c = "X" -> "x"
      [] OTHER -> c

lower(s) == [i \in 1..Len(s) |-> LowerChar(s[i])]

\* needle in s
Contains(needle, s) ==
    \E i \in 0..(Len(s) - Len(needle)) : SubSeq(s, i + 1, i + Len(needle)) = needle

\* pattern = f"*{file_type}" if file_type != "*" else "*"
search_pattern(file_type) == IF file_type # <<"*">> THEN <<"*">> \o file_type ELSE <<"*">>

\* search_files(directory, query, file_type): a file that cannot be opened or
\* decoded is skipped by the inner bare except.
search_files(f, d, query, file_type) ==
    LET g == rglob(f, d, search_pattern(file_type))
        hits == {m \in g.matches :
                    /\ is_file(f, m).val
                    /\ f[m].ok
                    /\ Contains(lower(query), lower(f[m].content))}
        results == {[file |-> relative_to(m, d),
                     size |-> Len(f[m].content),
                     modified |-> "st_mtime"] : m \in hits}
    IN  IF g.err # "" THEN Err(<<g.err>>)
        ELSE Return([directory |-> d,
                     query |-> query,
                     file_type |-> file_type,
                     results |-> results,
                     total_matches |-> Cardinality(results)])

(***************************************************************************)
(* System and environment tools                                            *)
(***************************************************************************)
\* os.environ of the server process.
Environ == [HOME |-> "/root", EMPTY |-> ""]

\* A str holding a lone surrogate is well typed and cannot be encoded.
SurrogateName == "\\ud800"
EnvNamesIn == {"HOME", "EMPTY", "UNSET", SurrogateName}

\* get_system_info(): no try/except; Path.cwd() raises when the working
\* directory has been removed.
get_system_info(cwd_ok) ==
    IF ~cwd_ok THEN Raise("FileNotFoundError")
    ELSE Return([platform |-> "platform.system()",
                 platform_version |-> "platform.version()",
                 architecture |-> "platform.machine()",
                 processor |-> "platform.processor()",
                 python_version |-> "platform.python_version()",
                 current_directory |-> "cwd",
                 home_directory |-> "home",
                 environment_variables |-> Environ])

\* get_environment_variable(name): no try/except; os.environ.get encodes
\* the key before the lookup.
get_environment_variable(name) ==
    IF name = SurrogateName THEN Raise("UnicodeEncodeError")
    ELSE IF name \in DOMAIN Environ
         THEN Return([name |-> name, value |-> Environ[name], exists |-> TRUE])
    ELSE Return([name |-> name, value |-> "None", exists |-> FALSE])

(***************************************************************************)
(* The dispatcher serving one invocation at a time over the filesystem     *)
(***************************************************************************)
ContentsIn == {<<"H", "i">>, <<"x">>}
QueriesIn == {<<"h", "I">>, <<"X">>}
FileTypesIn == {<<"*">>, <<".", "t">>, <<"*", ".", "t">>}
PatternsIn == {<<"*">>, <<"*", ".", "t">>, <<"a">>, <<"*", "*">>, <<>>}

EmptyFs == [p \in Paths |-> Absent]

\* The trees the server may find when it starts: nothing; a directory that
\* holds a socket and a file that cannot be read; a directory that cannot
\* be read.
InitialTrees ==
    { EmptyFs,
      [EmptyFs EXCEPT ![<<<<"a">>>>] = Dir(TRUE),
                      ![<<<<"a">>, <<"a">>>>] = Socket,
                      ![<<<<"a">>, <<"b", ".", "t">>>>] = File(FALSE, <<"H", "i">>)],
      [EmptyFs EXCEPT ![<<<<"a">>>>] = Dir(FALSE)] }

Idle == /\ procs = <<>>
        /\ sub = [stage |-> "none"]
        /\ res2 = NoRes

InitFs ==
    /\ fs \in InitialTrees
    /\ fs0 = fs
    /\ cwdOk = TRUE
    /\ call = NoCall
    /\ res = NoRes
    /\ Idle

ListFiles(d, pat) ==
    /\ call' = [tool |-> "list_files", directory |-> d, pattern |-> pat]
    /\ res' = list_files(fs, d, pat)
    /\ UNCHANGED <<fs, fs0, cwdOk, procs, sub, res2>>

SearchFiles(d, query, file_type) ==
    /\ call' = [tool |-> "search_files", directory |-> d, query |-> query,
                file_type |-> file_type]
    /\ res' = search_files(fs, d, query, file_type)
    /\ UNCHANGED <<fs, fs0, cwdOk, procs, sub, res2>>

CreateFile(p, content, overwrite) ==
    LET r == create_file(fs, p, content, overwrite)
    IN  /\ NodeCount(r.fs) <= MaxNodes
        /\ call' = [tool |-> "create_file", file_path |-> p, content |-> content,
                    overwrite |-> overwrite]
        /\ fs' = r.fs
        /\ res' = r.out
        /\ UNCHANGED <<fs0, cwdOk, procs, sub, res2>>

GetSystemInfo ==
    /\ call' = [tool |-> "get_system_info"]
    /\ res' = get_system_info(cwdOk)
    /\ UNCHANGED <<fs, fs0, cwdOk, procs, sub, res2>>

GetEnvironmentVariable(name) ==
    /\ call' = [tool |-> "get_environment_variable", name |-> name]
    /\ res' = get_environment_variable(name)
    /\ UNCHANGED <<fs, fs0, cwdOk, procs, sub, res2>>

\* The environment: another process removes the server's working directory.
RemoveCwd ==
    /\ cwdOk
    /\ cwdOk' = FALSE
    /\ call' = [tool |-> "none"]
    /\ res' = NoRes
    /\ UNCHANGED <<fs, fs0, procs, sub, res2>>

NextFs ==
    \/ \E d \in Dirs, pat \in PatternsIn : ListFiles(d, pat)
    \/ \E d \in Dirs, q \in QueriesIn, t \in FileTypesIn : SearchFiles(d, q, t)
    \/ \E p \in Paths, c \in ContentsIn, o \in BOOLEAN : CreateFile(p, c, o)
    \/ GetSystemInfo
    \/ \E n \in EnvNamesIn : GetEnvironmentVariable(n)
    \/ RemoveCwd

SpecFs == InitFs /\ [][NextFs]_vars

(***************************************************************************)
(* Properties of the filesystem tools                                      *)
(***************************************************************************)
\* The path named by the last create_file, as it was before that call.
ExistsBefore(f, p) == Stat(f, p).err = ""
RegularWritableBefore(f, p) ==
    Stat(f, p).err = "" /\ Stat(f, p).node.kind = "file" /\ Stat(f, p).node.ok

CreateSucceeded(r, f, p, content) ==
    /\ IsPayload(r)
    /\ r.env.success = TRUE
    /\ f[p].kind = "file"
    /\ f[p].content = content

C2_HandlersTotal ==
    call.tool # "none" => IsEnvelope(res) /\ (IsErrorEnvelope(res) \/ IsPayload(res))

\* The outcome of an invocation on filesystem f and working-directory state cw.
Outcome(c, f, cw) ==
    CASE c.tool = "list_files" -> list_files(f, c.directory, c.pattern)
      [] c.tool = "search_files" -> search_files(f, c.directory, c.query, c.file_type)
      [] c.tool = "create_file" -> create_file(f, c.file_path, c.content, c.overwrite).out
      [] c.tool = "get_system_info" -> get_system_info(cw)
      [] c.tool = "get_environment_variable" -> get_environment_variable(c.name)
      [] OTHER -> NoRes

ReadOnlyTools ==
    {"list_files", "search_files", "get_system_info", "get_environment_variable"}

MissingOrUnreadable(f, d) ==
    \/ Stat(f, d).err # ""
    \/ (Stat(f, d).node.kind = "dir" /\ ~Stat(f, d).node.ok)

\* C5: list_files on a directory that does not exist or is not readable
\* returns an error-only envelope, whatever the pattern.
C5_ListMissingDirectoryFails ==
    (call.tool = "list_files" /\ MissingOrUnreadable(fs, call.directory)) =>
        IsErrorEnvelope(res)

\* The entries of d the pattern matches, whatever their kind.
MatchedEntries(f, d, pat) ==
    IF pat = <<"*", "*">> THEN RecursiveDirs(f, d)
    ELSE {p \in Children(d) : f[p].kind # "absent" /\ Match(pat, Last(p))}

ListingConsistent(e) ==
    /\ e.files \cap e.directories = {}
    /\ e.total_files = Cardinality(e.files)
    /\ e.total_dirs = Cardinality(e.directories)

\* C6 as stated: on success the two lists are disjoint, the totals are
\* their lengths, and the totals add up to the number of entries matched.
C6_PartitionOfAllMatches ==
    (call.tool = "list_files" /\ IsPayload(res)) =>
        /\ ListingConsistent(res.env)
        /\ res.env.total_files + res.env.total_dirs =
              Cardinality(MatchedEntries(fs, call.directory, call.pattern))

\* C6 amended: on success the two lists are disjoint, the totals are their
\* lengths, and the totals add up to the number of matched entries that are
\* regular files or directories; a match of another kind is in neither list.
C6_PartitionOfFilesAndDirs ==
    (call.tool = "list_files" /\ IsPayload(res)) =>
        /\ ListingConsistent(res.env)
        /\ res.env.total_files + res.env.total_dirs =
              Cardinality({m \in MatchedEntries(fs, call.directory, call.pattern) :
                              NodeAt(fs, m).kind \in {"file", "dir"}})

\* A listing that reports a file and leaves out a matched socket.
C6_Witness ==
    /\ call.tool = "list_files"
    /\ IsPayload(res)
    /\ res.env.total_files >= 1
    /\ res.env.total_files + res.env.total_dirs <
          Cardinality(MatchedEntries(fs, call.directory, call.pattern))

\* The extension a file_type argument asks for: ".t" and "*.t" both ask for
\* names ending in ".t", "*" for every name.
ExtensionOf(file_type) ==
    IF file_type # <<>> /\ Head(file_type) = "*" THEN Tail(file_type) ELSE file_type

HasExtension(name, ext) ==
    Len(ext) <= Len(name) /\ SubSeq(name, Len(name) - Len(ext) + 1, Len(name)) = ext

\* The files search_files is to report: the readable regular files below d
\* with the extension, whose content holds the query in any letter case.
ExpectedHits(f, d, query, file_type) ==
    {m \in Paths :
        /\ IsPrefix(d, m) /\ m # d
        /\ Stat(f, m).err = "" /\ f[m].kind = "file" /\ f[m].ok
        /\ HasExtension(Last(m), ExtensionOf(file_type))
        /\ Contains(lower(query), lower(f[m].content))}

\* C9: search_files returns a success envelope whose results are exactly
\* the readable regular files with the extension that hold the query, each
\* with path, size and modified time, and total_matches counts them.
C9_SearchSkipsUnreadable ==
    (call.tool = "search_files" /\ Stat(fs, call.directory).err = "") =>
        /\ IsPayload(res)
        /\ res.env.results =
              {[file |-> relative_to(m, call.directory),
                size |-> Len(fs[m].content),
                modified |-> "st_mtime"] :
                 m \in ExpectedHits(fs, call.directory, call.query, call.file_type)}
        /\ res.env.total_matches = Cardinality(res.env.results)

(***************************************************************************)
(* Concurrent create_file invocations                                      *)
(*                                                                         *)
(* The host may dispatch invocations in parallel.  Each create_file is     *)
(* then a sequence of system calls on the shared filesystem: the existence *)
(* check, the creation of the parent directories, open(path, 'w') (which   *)
(* creates or truncates the file), the write, and the stat for the         *)
(* envelope.                                                               *)
(***************************************************************************)
\* The number of invocations the host dispatches in parallel.
NumProcs == 2

Procs == 1..NumProcs

IdleProc ==
    [pc |-> "idle", path |-> Root, content |-> <<>>, overwrite |-> FALSE,
     out |-> NoRes, replaced |-> FALSE]

InitRace ==
    /\ fs = EmptyFs
    /\ fs0 = fs
    /\ cwdOk = TRUE
    /\ call = NoCall
    /\ res = NoRes
    /\ procs = [i \in Procs |-> IdleProc]
    /\ sub = [stage |-> "none"]
    /\ res2 = NoRes

Finish(i, out) == procs' = [procs EXCEPT ![i].pc = "done", ![i].out = out]
Goto(i, pc) == procs' = [procs EXCEPT ![i].pc = pc]

\* The host hands process i an invocation create_file(p, content, overwrite).
Dispatch(i, p, content, overwrite) ==
    /\ procs[i].pc = "idle"
    /\ procs' = [procs EXCEPT ![i].pc = "check", ![i].path = p,
                              ![i].content = content, ![i].overwrite = overwrite]
    /\ UNCHANGED <<fs, fs0, cwdOk, call, res, sub, res2>>

\* if path.exists() and not overwrite: return {"error": ...}
Check(i) ==
    LET me == procs[i]
        e == exists(fs, me.path)
    IN  /\ me.pc = "check"
        /\ IF e.raised THEN Finish(i, Err(<<"PermissionError">>))
           ELSE IF e.val /\ ~me.overwrite THEN Finish(i, Err(AlreadyExists(me.path)))
           ELSE Goto(i, "mkdir")
        /\ UNCHANGED <<fs, fs0, cwdOk, call, res, sub, res2>>

\* path.parent.mkdir(parents=True, exist_ok=True)
MakeParents(i) ==
    LET me == procs[i]
        m == mkdir_p(fs, Parent(me.path))
    IN  /\ me.pc = "mkdir"
        /\ NodeCount(m.fs) <= MaxNodes
        /\ fs' = m.fs
        /\ IF m.err # "" THEN Finish(i, Err(<<m.err>>)) ELSE Goto(i, "open")
        /\ UNCHANGED <<fs0, cwdOk, call, res, sub, res2>>

\* open(path, 'w'): the file is created, or truncated if it is there.
OpenForWrite(i) ==
    LET me == procs[i]
        w == open_write(fs, me.path, <<>>)
    IN  /\ me.pc = "open"
        /\ NodeCount(w.fs) <= MaxNodes
        /\ fs' = w.fs
        /\ IF w.err # "" THEN Finish(i, Err(<<w.err>>))
           ELSE procs' = [procs EXCEPT ![i].pc = "write",
                                       ![i].replaced = (NodeAt(fs, me.path).kind = "file")]
        /\ UNCHANGED <<fs0, cwdOk, call, res, sub, res2>>

\* f.write(content), flushed when the with block closes the file.
Write(i) ==
    LET me == procs[i]
    IN  /\ me.pc = "write"
        /\ fs' = [fs EXCEPT ![me.path].content = me.content]
        /\ Goto(i, "stat")
        /\ UNCHANGED <<fs0, cwdOk, call, res, sub, res2>>

\* return {"success": True, ..., "size": path.stat().st_size, ...}
ReturnCreated(i) ==
    LET me == procs[i]
    IN  /\ me.pc = "stat"
        /\ Finish(i, created_envelope(fs, me.path))
        /\ UNCHANGED <<fs, fs0, cwdOk, call, res, sub, res2>>

NextRace ==
    \/ \E i \in Procs, p \in Paths, c \in ContentsIn, o \in BOOLEAN : Dispatch(i, p, c, o)
    \/ \E i \in Procs : Check(i)
    \/ \E i \in Procs : MakeParents(i)
    \/ \E i \in Procs : OpenForWrite(i)
    \/ \E i \in Procs : Write(i)
    \/ \E i \in Procs : ReturnCreated(i)

SpecRace == InitRace /\ [][NextRace]_vars

\* The invocations with overwrite=false that returned success for path p.
Winners(p) ==
    {i \in Procs : /\ procs[i].pc = "done"
                   /\ procs[i].path = p
                   /\ ~procs[i].overwrite
                   /\ IsPayload(procs[i].out)}

\* C3: under every interleaving of create_file invocations with
\* overwrite=false on one path, at most one of them returns success, and
\* none of them replaces a file that is there when it opens the path.
C3_ConcurrentCreateSafe ==
    /\ \A p \in Paths : Cardinality(Winners(p)) <= 1
    /\ \A i \in Procs : ~procs[i].overwrite => ~procs[i].replaced

(***************************************************************************)
(* run_command                                                             *)
(*                                                                         *)
(* subprocess.run(command, shell=True, cwd=..., capture_output=True,       *)
(* text=True, timeout=30) blocks the handler until the shell exits or the  *)
(* timeout elapses; on timeout it kills the shell, waits for it and raises *)
(* TimeoutExpired.  Time is counted in seconds.                            *)
(***************************************************************************)
\* timeout=30
Timeout == 30

\* The largest exit status the modelled commands return.
MaxReturnCode == 2

CommandsIn == {"echo", "sleep 60"}
\* What a command may write to a pipe: nothing, text, or a byte that is not
\* valid UTF-8.
OutputsIn == {<<>>, <<"o", "k">>, <<"\\xff">>}

TimedOutMessage == <<"Command timed out after 30 seconds">>

\* The text=True decoding of a captured stream (UTF-8, errors='strict').
decode(bytes) ==
    IF \E i \in 1..Len(bytes) : bytes[i] = "\\xff"
    THEN [ok |-> FALSE, text |-> <<>>]
    ELSE [ok |-> TRUE, text |-> bytes]

\* What run_command returns for a command that exited with rc, out and err.
completed_envelope(command, wd, rc, out, err) ==
    IF ~decode(out).ok \/ ~decode(err).ok THEN Err(<<"UnicodeDecodeError">>)
    ELSE Return([command |-> command,
                 working_directory |-> wd,
                 return_code |-> rc,
                 stdout |-> decode(out).text,
                 stderr |-> decode(err).text,
                 success |-> (rc = 0)])

InitRun ==
    /\ fs = EmptyFs
    /\ fs0 = fs
    /\ cwdOk = TRUE
    /\ call = NoCall
    /\ res = NoRes
    /\ procs = <<>>
    /\ sub = [stage |-> "none"]
    /\ res2 = NoRes

\* run_command(command, working_directory): Popen starts the shell, or fails
\* at once when the working directory is missing.
RunCommand(command, wd) ==
    /\ sub.stage \in {"none", "returned", "failed"}
    /\ call' = [tool |-> "run_command", command |-> command, working_directory |-> wd]
    /\ IF wd = "." /\ cwdOk
       THEN /\ sub' = [stage |-> "running", elapsed |-> 0]
            /\ res' = NoRes
       ELSE /\ sub' = [stage |-> "failed"]
            /\ res' = Err(<<"FileNotFoundError">>)
    /\ UNCHANGED <<fs, fs0, cwdOk, procs, res2>>

\* A second passes while the shell runs.
Tick ==
    /\ sub.stage = "running"
    /\ sub.elapsed < Timeout
    /\ sub' = [sub EXCEPT !.elapsed = @ + 1]
    /\ UNCHANGED <<fs, fs0, cwdOk, call, res, procs, res2>>

\* The shell exits before the timeout; subprocess.run returns the
\* CompletedProcess and the handler builds its envelope.
CommandExits(rc, out, err) ==
    /\ sub.stage = "running"
    /\ sub.elapsed < Timeout
    /\ sub' = [stage |-> "returned", how |-> "exited", elapsed |-> sub.elapsed,
               rc |-> rc, out |-> out, err |-> err]
    /\ res' = completed_envelope(call.command, call.working_directory, rc, out, err)
    /\ UNCHANGED <<fs, fs0, cwdOk, call, procs, res2>>

\* The timeout elapses: subprocess.run kills the shell.
TimeoutExpires ==
    /\ sub.stage = "running"
    /\ sub.elapsed = Timeout
    /\ sub' = [stage |-> "killed", elapsed |-> sub.elapsed]
    /\ UNCHANGED <<fs, fs0, cwdOk, call, res, procs, res2>>

\* process.wait() returns, TimeoutExpired is raised and caught by the handler.
ReapKilled ==
    /\ sub.stage = "killed"
    /\ sub' = [stage |-> "returned", how |-> "timeout", elapsed |-> sub.elapsed,
               rc |-> 0 - 9, out |-> <<>>, err |-> <<>>]
    /\ res' = Err(TimedOutMessage)
    /\ UNCHANGED <<fs, fs0, cwdOk, call, procs, res2>>

NextRun ==
    \/ \E c \in CommandsIn, wd \in {".", "/no/such/dir"} : RunCommand(c, wd)
    \/ Tick
    \/ \E rc \in 0..MaxReturnCode, out \in OutputsIn, err \in OutputsIn :
          CommandExits(rc, out, err)
    \/ TimeoutExpires
    \/ ReapKilled
    \/ (cwdOk /\ sub.stage # "running" /\ RemoveCwd)

SpecRun == InitRun /\ [][NextRun]_vars

\* Time passes, and the kernel ends a killed process.
SpecRunFair == SpecRun /\ WF_vars(Tick) /\ WF_vars(TimeoutExpires) /\ WF_vars(ReapKilled)

\* C8 (liveness part): an invocation whose shell was started returns.
RunCommandReturns == (sub.stage = "running") ~> (sub.stage = "returned")

\* C8: a command that completes before the timeout yields a payload with
\* the exit status and the two captured streams, success being true exactly
\* for exit status 0; one that does not yields the timeout error envelope,
\* which no other failure yields, and never a payload.
C8_RunCommandOutcome ==
    /\ (call.tool = "run_command" /\ sub.stage = "returned" /\ sub.how = "exited") =>
          /\ IsPayload(res)
          /\ res.env.return_code = sub.rc
          /\ res.env.stdout = sub.out
          /\ res.env.stderr = sub.err
          /\ res.env.success = (sub.rc = 0)
    /\ (call.tool = "run_command" /\ sub.stage = "returned" /\ sub.how = "timeout") =>
          res = Err(TimedOutMessage)
    /\ (call.tool = "run_command" /\ res = Err(TimedOutMessage)) =>
          (sub.stage = "returned" /\ sub.how = "timeout")

(***************************************************************************)
(* convert_data: json.loads and json.dumps on a small JSON alphabet        *)
(***************************************************************************)
\* The longest data string given to convert_data.
MaxDataLen == 4

JsonChars == {"[", "]", ",", "1", " "}
DataIn == UNION {[1..n -> JsonChars] : n \in 0..MaxDataLen}
FromFormatsIn == {"json", "yaml"}
ToFormatsIn == {"json", "compact_json", "yaml"}

Num(n) == [t |-> "num", n |-> n, items |-> <<>>]
Arr(items) == [t |-> "arr", n |-> 0, items |-> items]

Parsed(v, next) == [ok |-> TRUE, msg |-> "", val |-> v, next |-> next]
ParseError(msg) == [ok |-> FALSE, msg |-> msg, val |-> Num(0), next |-> 0]

\* json.decoder.WHITESPACE.match(s, i).end()
RECURSIVE SkipWs(_, _)
SkipWs(s, i) == IF i <= Len(s) /\ s[i] = " " THEN SkipWs(s, i + 1) ELSE i

\* The end of the run of digits that starts at i.
RECURSIVE NumberEnd(_, _)
NumberEnd(s, i) == IF i <= Len(s) /\ s[i] = "1" THEN NumberEnd(s, i + 1) ELSE i

\* int() of the digits s[i..j-1], all of them "1" in this alphabet.
RECURSIVE NumberValue(_, _, _)
NumberValue(s, i, j) == IF j <= i THEN 0 ELSE 10 * NumberValue(s, i, j - 1) + 1

\* scan_once: one JSON value starting at i; parse_items: the items of an
\* array, i being the start of the next item.
RECURSIVE scan_once(_, _), parse_items(_, _, _)
scan_once(s, i) ==
    IF i > Len(s) THEN ParseError("Expecting value")
    ELSE IF s[i] = "1"
         THEN Parsed(Num(NumberValue(s, i, NumberEnd(s, i))), NumberEnd(s, i))
    ELSE IF s[i] = "[" THEN
            LET j == SkipWs(s, i + 1)
            IN  IF j <= Len(s) /\ s[j] = "]" THEN Parsed(Arr(<<>>), j + 1)
                ELSE parse_items(s, j, <<>>)
    ELSE ParseError("Expecting value")

parse_items(s, i, acc) ==
    LET v == scan_once(s, i)
        k == SkipWs(s, v.next)
    IN  IF ~v.ok THEN v
        ELSE IF k > Len(s) THEN ParseError("Expecting ',' delimiter")
        ELSE IF s[k] = "]" THEN Parsed(Arr(Append(acc, v.val)), k + 1)
        ELSE IF s[k] # "," THEN ParseError("Expecting ',' delimiter")
        ELSE parse_items(s, SkipWs(s, k + 1), Append(acc, v.val))

\* json.loads(data)
json_loads(s) ==
    LET v == scan_once(s, SkipWs(s, 1))
    IN  IF ~v.ok THEN v
        ELSE IF SkipWs(s, v.next) <= Len(s) THEN ParseError("Extra data")
        ELSE v

DigitChars == <<"0", "1", "2", "3", "4", "5", "6", "7", "8", "9">>

\* str(n) for n >= 0
RECURSIVE Digits(_)
Digits(n) ==
    IF n < 10 THEN <<DigitChars[n + 1]>>
    ELSE Digits(n \div 10) \o <<DigitChars[(n % 10) + 1]>>

Spaces(k) == [i \in 1..k |-> " "]

\* json.dumps(v): items separated by ", ".
RECURSIVE dumps_compact(_), join_compact(_, _)
dumps_compact(v) ==
    IF v.t = "num" THEN Digits(v.n)
    ELSE IF v.items = <<>> THEN <<"[", "]">>
    ELSE <<"[">> \o join_compact(v.items, 1) \o <<"]">>

join_compact(items, i) ==
    IF i = Len(items) THEN dumps_compact(items[i])
    ELSE dumps_compact(items[i]) \o <<",", " ">> \o join_compact(items, i + 1)

\* json.dumps(v, indent=2) at nesting depth level: one item per line.
RECURSIVE dumps_indent(_, _), join_indent(_, _, _)
dumps_indent(v, level) ==
    IF v.t = "num" THEN Digits(v.n)
    ELSE IF v.items = <<>> THEN <<"[", "]">>
    ELSE <<"[", "\n">> \o join_indent(v.items, 1, level + 1)
            \o <<"\n">> \o Spaces(2 * level) \o <<"]">>

join_indent(items, i, level) ==
    IF i = Len(items) THEN Spaces(2 * level) \o dumps_indent(items[i], level)
    ELSE Spaces(2 * level) \o dumps_indent(items[i], level) \o <<",", "\n">>
            \o join_indent(items, i + 1, level)

converted_envelope(from_format, to_format, result) ==
    Return([success |-> TRUE,
            from_format |-> from_format,
            to_format |-> to_format,
            result |-> result,
            size |-> Len(result)])

\* convert_data with both formats checked before the data is parsed.
convert_data_formats_first(data, from_format, to_format) ==
    IF from_format # "json" THEN Err(<<"Unsupported input format: ", from_format>>)
    ELSE IF to_format \notin {"json", "compact_json"}
         THEN Err(<<"Unsupported output format: ", to_format>>)
    ELSE IF ~json_loads(data).ok THEN Err(<<json_loads(data).msg>>)
    ELSE IF to_format = "json"
         THEN converted_envelope(from_format, to_format, dumps_indent(json_loads(data).val, 0))
    ELSE converted_envelope(from_format, to_format, dumps_compact(json_loads(data).val))

\* convert_data(data, from_format, to_format)
convert_data(data, from_format, to_format) ==
    IF from_format # "json" THEN Err(<<"Unsupported input format: ", from_format>>)
    ELSE
        LET parsed == json_loads(data)
        IN  IF ~parsed.ok THEN Err(<<parsed.msg>>)
            ELSE IF to_format = "json"
                 THEN converted_envelope(from_format, to_format, dumps_indent(parsed.val, 0))
            ELSE IF to_format = "compact_json"
                 THEN converted_envelope(from_format, to_format, dumps_compact(parsed.val))
            ELSE Err(<<"Unsupported output format: ", to_format>>)

(***************************************************************************)
(* calculate_time_difference                                               *)
(*                                                                         *)
(* A timestamp string is modelled by what it spells: nothing parseable, a  *)
(* date, or a date and a time with or without a UTC offset.  Days count    *)
(* from the first day of the modelled range, time in whole seconds.        *)
(***************************************************************************)
\* The last day of the modelled range of dates.
MaxDay == 1

SecondsPerDay == 86400
SecondsIn == {0, 1, SecondsPerDay - 1}
OffsetsIn == {0, 3600}

TimeStr(form, day, sec, aware, off) ==
    [form |-> form, day |-> day, sec |-> sec, aware |-> aware, off |-> off]

TimeStringsIn ==
    {TimeStr("garbage", 0, 0, FALSE, 0)}
    \cup {TimeStr("date", d, 0, FALSE, 0) : d \in 0..MaxDay}
    \cup {TimeStr("datetime", d, sc, FALSE, 0) : d \in 0..MaxDay, sc \in SecondsIn}
    \cup {TimeStr("datetime", d, sc, TRUE, o) :
            d \in 0..MaxDay, sc \in SecondsIn, o \in OffsetsIn}
TimeFormatsIn == {"iso", "%Y-%m-%d"}

DateTime(day, sec, aware, off) == [day |-> day, sec |-> sec, aware |-> aware, off |-> off]
ParsedTime(dt) == [ok |-> TRUE, dt |-> dt]
NoTime == [ok |-> FALSE, dt |-> DateTime(0, 0, FALSE, 0)]

\* datetime.datetime.fromisoformat(ts): a date alone is midnight of that day.
fromisoformat(ts) ==
    IF ts.form = "garbage" THEN NoTime
    ELSE IF ts.form = "date" THEN ParsedTime(DateTime(ts.day, 0, FALSE, 0))
    ELSE ParsedTime(DateTime(ts.day, ts.sec, ts.aware, ts.off))

\* datetime.datetime.strptime(ts, "%Y-%m-%d"): the whole string must match.
strptime(ts, format) ==
    IF format = "%Y-%m-%d" /\ ts.form = "date"
    THEN ParsedTime(DateTime(ts.day, 0, FALSE, 0))
    ELSE NoTime

parse_time(ts, format) == IF format = "iso" THEN fromisoformat(ts) ELSE strptime(ts, format)

\* Seconds from the start of the range to dt: on the UTC scale for an aware
\* datetime, on the wall clock for a naive one.
Instant(dt) == dt.day * SecondsPerDay + dt.sec - (IF dt.aware THEN dt.off ELSE 0)

\* end - start, normalised as timedelta does: 0 <= seconds < 86400, days
\* carrying the sign.
timedelta(total) == [days |-> total \div SecondsPerDay, seconds |-> total % SecondsPerDay]

\* timedelta.total_seconds()
total_seconds(td) == td.days * SecondsPerDay + td.seconds

Ratio(n, d) == [num |-> n, den |-> d]

difference_envelope(start, end, td, seconds) ==
    Return([start_time |-> start,
            end_time |-> end,
            difference_seconds |-> seconds,
            difference_minutes |-> Ratio(seconds, 60),
            difference_hours |-> Ratio(seconds, 3600),
            difference_days |-> td.days,
            formatted |-> <<td.days, td.seconds>>])

\* calculate_time_difference reporting timedelta.seconds, which leaves the
\* days out, in place of total_seconds().
calculate_time_difference_seconds_field(start_time, end_time, format) ==
    LET start == parse_time(start_time, format)
        end == parse_time(end_time, format)
        td == timedelta(Instant(end.dt) - Instant(start.dt))
    IN  IF ~start.ok \/ ~end.ok THEN Err(<<"ValueError">>)
        ELSE IF start.dt.aware # end.dt.aware THEN Err(<<"TypeError">>)
        ELSE difference_envelope(start.dt, end.dt, td, td.seconds)

\* calculate_time_difference(start_time, end_time, format)
calculate_time_difference(start_time, end_time, format) ==
    LET start == parse_time(start_time, format)
        end == parse_time(end_time, format)
        td == timedelta(Instant(end.dt) - Instant(start.dt))
    IN  IF ~start.ok \/ ~end.ok THEN Err(<<"ValueError">>)
        \* can't subtract offset-naive and offset-aware datetimes
        ELSE IF start.dt.aware # end.dt.aware THEN Err(<<"TypeError">>)
        ELSE difference_envelope(start.dt, end.dt, td, total_seconds(td))

(***************************************************************************)
(* format_text                                                             *)
(***************************************************************************)
\* The longest text given to format_text.
MaxTextLen == 4

TextChars == {"x", "H", " ", "\t", "."}
TextsIn == UNION {[1..n -> TextChars] : n \in 0..MaxTextLen}
FormatTypesIn == {"clean", "uppercase", "lowercase", "title", "sentence", "plain"}

\* str.isspace() of one character
IsSpace(c) == c \in {" ", "\t", "\n"}

\* str.isalpha() of one character (the cased characters of the alphabet)
IsCased(c) == c \in {"x", "X", "h", "H", "i", "I"}

\* str.upper() of one character
UpperChar(c) ==
    CASE c = "h" -> "H"
      [] c = "i" -> "I"
      [] c = "x" -> "X"
      [] OTHER -> c

upper(s) == [i \in 1..Len(s) |-> UpperChar(s[i])]

\* text.split(): the maximal runs of characters that are not whitespace.
\* word is the run being read.
RECURSIVE split_whitespace(_, _, _)
split_whitespace(s, i, word) ==
    IF i > Len(s) THEN (IF word = <<>> THEN <<>> ELSE <<word>>)
    ELSE IF IsSpace(s[i])
         THEN (IF word = <<>> THEN <<>> ELSE <<word>>) \o split_whitespace(s, i + 1, <<>>)
    ELSE split_whitespace(s, i + 1, Append(word, s[i]))

\* text.split("."): the pieces between the periods, empty ones included.
RECURSIVE split_on(_, _, _, _)
split_on(s, sep, i, piece) ==
    IF i > Len(s) THEN <<piece>>
    ELSE IF s[i] = sep THEN <<piece>> \o split_on(s, sep, i + 1, <<>>)
    ELSE split_on(s, sep, i + 1, Append(piece, s[i]))

\* sep.join(pieces)
RECURSIVE join(_, _)
join(sep, pieces) ==
    IF pieces = <<>> THEN <<>>
    ELSE IF Len(pieces) = 1 THEN pieces[1]
    ELSE pieces[1] \o sep \o join(sep, Tail(pieces))

\* str.title(): a cased character is upper case at the start of a run of
\* cased characters and lower case inside it.
title(s) ==
    [i \in 1..Len(s) |->
        IF i > 1 /\ IsCased(s[i - 1]) THEN LowerChar(s[i]) ELSE UpperChar(s[i])]

\* str.capitalize()
capitalize(s) ==
    [i \in 1..Len(s) |-> IF i = 1 THEN UpperChar(s[i]) ELSE LowerChar(s[i])]

\* str.strip()
RECURSIVE lstrip(_), rstrip(_)
lstrip(s) == IF s # <<>> /\ IsSpace(Head(s)) THEN lstrip(Tail(s)) ELSE s
rstrip(s) ==
    IF s # <<>> /\ IsSpace(s[Len(s)]) THEN rstrip(SubSeq(s, 1, Len(s) - 1)) ELSE s
strip(s) == rstrip(lstrip(s))

\* ". ".join(s.capitalize().strip() for s in text.split("."))
sentence(s) ==
    LET pieces == split_on(s, ".", 1, <<>>)
    IN  join(<<".", " ">>, [k \in 1..Len(pieces) |-> strip(capitalize(pieces[k]))])

\* One pass that replaces each pair of adjacent whitespace characters by a
\* space.
RECURSIVE collapse_pairs(_)
collapse_pairs(s) ==
    IF Len(s) < 2 THEN s
    ELSE IF IsSpace(s[1]) /\ IsSpace(s[2]) THEN <<" ">> \o collapse_pairs(Tail(Tail(s)))
    ELSE <<Head(s)>> \o collapse_pairs(Tail(s))

formatted_envelope(text, formatted, format_type) ==
    Return([original |-> text,
            formatted |-> formatted,
            format_type |-> format_type,
            length_change |-> Len(formatted) - Len(text)])

\* format_text whose "clean" mode makes a single pass over adjacent pairs of
\* whitespace.
format_text_single_pass(text, format_type) ==
    formatted_envelope(text,
        CASE format_type = "clean" -> collapse_pairs(text)
          [] format_type = "uppercase" -> upper(text)
          [] format_type = "lowercase" -> lower(text)
          [] format_type = "title" -> title(text)
          [] format_type = "sentence" -> sentence(text)
          [] OTHER -> text,
        format_type)

\* format_text(text, format_type)
format_text(text, format_type) ==
    formatted_envelope(text,
        CASE format_type = "clean" -> join(<<" ">>, split_whitespace(text, 1, <<>>))
          [] format_type = "uppercase" -> upper(text)
          [] format_type = "lowercase" -> lower(text)
          [] format_type = "title" -> title(text)
          [] format_type = "sentence" -> sentence(text)
          [] OTHER -> text,
        format_type)

(***************************************************************************)
(* The pure tools: the arguments are drawn at the start, the handlers are  *)
(* applied to them.                                                        *)
(***************************************************************************)
ConvertCalls ==
    {[tool |-> "convert_data", data |-> d, from_format |-> f, to_format |-> t] :
        d \in DataIn, f \in FromFormatsIn, t \in ToFormatsIn}

TimeCalls ==
    {[tool |-> "calculate_time_difference", start_time |-> a, end_time |-> b,
      format |-> f] : a \in TimeStringsIn, b \in TimeStringsIn, f \in TimeFormatsIn}

FormatCalls ==
    {[tool |-> "format_text", text |-> t, format_type |-> f] :
        t \in TextsIn, f \in FormatTypesIn}

InitPure ==
    /\ call \in ConvertCalls \cup TimeCalls \cup FormatCalls
    /\ res = NoRes
    /\ res2 = NoRes
    /\ fs = EmptyFs
    /\ fs0 = fs
    /\ cwdOk = TRUE
    /\ procs = <<>>
    /\ sub = [stage |-> "none"]

ConvertData ==
    /\ call.tool = "convert_data"
    /\ res' = convert_data(call.data, call.from_format, call.to_format)
    /\ UNCHANGED <<fs, fs0, cwdOk, call, procs, sub, res2>>

CalculateTimeDifference ==
    /\ call.tool = "calculate_time_difference"
    /\ res' = calculate_time_difference(call.start_time, call.end_time, call.format)
    /\ UNCHANGED <<fs, fs0, cwdOk, call, procs, sub, res2>>

\* The same two timestamps in the other order.
CalculateTimeDifferenceReversed ==
    /\ call.tool = "calculate_time_difference"
    /\ res2' = calculate_time_difference(call.end_time, call.start_time, call.format)
    /\ UNCHANGED <<fs, fs0, cwdOk, call, procs, sub, res>>

FormatText ==
    /\ call.tool = "format_text"
    /\ res' = format_text(call.text, call.format_type)
    /\ UNCHANGED <<fs, fs0, cwdOk, call, procs, sub, res2>>

\* The formatted text of the first invocation is formatted again in the
\* same mode.
FormatTextAgain ==
    /\ call.tool = "format_text"
    /\ res # NoRes
    /\ res2' = format_text(res.env.formatted, call.format_type)
    /\ UNCHANGED <<fs, fs0, cwdOk, call, procs, sub, res>>

NextPure ==
    \/ ConvertData
    \/ CalculateTimeDifference
    \/ CalculateTimeDifferenceReversed
    \/ FormatText
    \/ FormatTextAgain

SpecPure == InitPure /\ [][NextPure]_vars

UnsupportedInput(c) == c.from_format # "json"
UnsupportedOutput(c) == c.to_format \notin {"json", "compact_json"}
Converted(c) == c.tool = "convert_data" /\ res # NoRes

\* C7 as stated: whenever a format is unsupported, whatever the data, the
\* envelope is the UnsupportedFormat error naming that format; success only
\* for the supported combinations.
C7_UnsupportedFormatAlways ==
    Converted(call) =>
        /\ UnsupportedInput(call) =>
              res = Err(<<"Unsupported input format: ", call.from_format>>)
        /\ (~UnsupportedInput(call) /\ UnsupportedOutput(call)) =>
              res = Err(<<"Unsupported output format: ", call.to_format>>)
        /\ IsPayload(res) => (~UnsupportedInput(call) /\ ~UnsupportedOutput(call))

\* C7 amended: an unsupported from_format gives the UnsupportedFormat error
\* naming it, whatever the data; with from_format "json" the data is parsed
\* first, so data that is not valid JSON gives the parser's error whatever
\* to_format is, and an unsupported to_format gives the UnsupportedFormat
\* error naming it only for valid JSON; success exactly for valid JSON and a
\* supported combination.
C7_UnsupportedFormatAfterParse ==
    Converted(call) =>
        /\ UnsupportedInput(call) =>
              res = Err(<<"Unsupported input format: ", call.from_format>>)
        /\ (~UnsupportedInput(call) /\ ~json_loads(call.data).ok) =>
              res = Err(<<json_loads(call.data).msg>>)
        /\ (~UnsupportedInput(call) /\ json_loads(call.data).ok /\ UnsupportedOutput(call)) =>
              res = Err(<<"Unsupported output format: ", call.to_format>>)
        /\ IsPayload(res) <=>
              (~UnsupportedInput(call) /\ ~UnsupportedOutput(call) /\ json_loads(call.data).ok)

\* Data that is not JSON was converted to an unsupported format: the
\* parser's error came back.
C7_Witness ==
    /\ Converted(call)
    /\ call.from_format = "json"
    /\ call.to_format = "yaml"
    /\ call.data = <<"[", "1", ",", "]">>
    /\ res = Err(<<"Expecting value">>)

BothDirections(c) ==
    c.tool = "calculate_time_difference" /\ res # NoRes /\ res2 # NoRes
Parseable(ts, format) == parse_time(ts, format).ok

\* C10 as stated: for parseable A and B in one format the two directions
\* report additive-inverse difference_seconds, zero when A equals B.
C10_AdditiveInverse ==
    (/\ BothDirections(call)
     /\ Parseable(call.start_time, call.format)
     /\ Parseable(call.end_time, call.format)) =>
        /\ IsPayload(res) /\ IsPayload(res2)
        /\ res.env.difference_seconds = 0 - res2.env.difference_seconds
        /\ (call.start_time = call.end_time => res.env.difference_seconds = 0)

SameAwareness(c) ==
    parse_time(c.start_time, c.format).dt.aware = parse_time(c.end_time, c.format).dt.aware

\* C10 amended: the same, for parseable A and B that both carry a UTC
\* offset or both carry none; when only one of them carries an offset both
\* directions return an error-only envelope.
C10_AdditiveInverseSameAwareness ==
    (/\ BothDirections(call)
     /\ Parseable(call.start_time, call.format)
     /\ Parseable(call.end_time, call.format)) =>
        IF SameAwareness(call)
        THEN /\ IsPayload(res) /\ IsPayload(res2)
             /\ res.env.difference_seconds = 0 - res2.env.difference_seconds
             /\ (call.start_time = call.end_time => res.env.difference_seconds = 0)
        ELSE IsErrorEnvelope(res) /\ IsErrorEnvelope(res2)

\* Both directions were computed for two aware timestamps a day and more
\* apart, one of them negative.
C10_Witness ==
    /\ BothDirections(call)
    /\ IsPayload(res) /\ IsPayload(res2)
    /\ call.start_time.aware /\ call.end_time.aware
    /\ call.start_time.off # call.end_time.off
    /\ res.env.difference_seconds < 0 - SecondsPerDay
    /\ res2.env.difference_seconds > SecondsPerDay

\* A text in which whitespace occurs only as single spaces between words.
IsClean(s) ==
    /\ \A i \in 1..Len(s) : IsSpace(s[i]) => s[i] = " "
    /\ s # <<>> => (s[1] # " " /\ s[Len(s)] # " ")
    /\ \A i \in 1..(Len(s) - 1) : ~(s[i] = " " /\ s[i + 1] = " ")

FormattedTwice(c) == c.tool = "format_text" /\ res # NoRes /\ res2 # NoRes

\* C11: for every text T, formatting the "clean" output of T again in mode
\* "clean" gives the same text, that text has its whitespace runs collapsed
\* to single spaces and no leading or trailing whitespace, and the second
\* application reports length_change 0.
C11_CleanIdempotent ==
    (FormattedTwice(call) /\ call.format_type = "clean") =>
        /\ IsPayload(res) /\ IsPayload(res2)
        /\ res2.env.formatted = res.env.formatted
        /\ IsClean(res.env.formatted)
        /\ res2.env.original = res.env.formatted
        /\ res2.env.length_change = 0

\* A text with a run of mixed whitespace between two words was cleaned,
\* which shortened it by one character, and cleaned again.
C11_Witness ==
    /\ FormattedTwice(call)
    /\ call.format_type = "clean"
    /\ call.text = <<"x", "\t", " ", "H">>
    /\ res.env.formatted = <<"x", " ", "H">>
    /\ res.env.length_change = 0 - 1
    /\ res2.env.formatted = <<"x", " ", "H">>
    /\ res2.env.length_change = 0

====
